---- MODULE Spec2Model ----
(***************************************************************************)
(* Model of the update engine of udd (src/mod.ts): class Udd with run,     *)
(* update, maybeReplace and replace.                                        *)
(*                                                                         *)
(* Strings are sequences of one-character strings, so that the string      *)
(* operations of the code (split/join, includes, slice, indexing) are      *)
(* computed on the text itself.  The file of a run holds the word "i"      *)
(* followed by import URLs, separated by blanks.  A URL has the shape      *)
(*      f@<version token>/m[#<fragment>]                                   *)
(* where "f@" stands for the registry prefix and "/m" for the module path. *)
(* The collaborators of mod.ts that are not part of src/ (search.ts,       *)
(* registry.ts, semver.ts, deps.ts) are modelled from the specification.   *)
(***************************************************************************)
EXTENDS Naturals, Sequences, FiniteSets, TLC

\* ------------------------------------------------------------------ bounds
\* The largest number of import URLs in the file of a run.
MaxRefs == 2
\* The largest number of versions a registry lists.
MaxVersions == 2

\* ------------------------------------------------------------- characters
Sep == " "
Digits == <<"0", "1", "2", "3", "4", "5", "6", "7", "8", "9">>
Letters == <<"a", "b", "c", "d", "e", "f", "i", "m", "n", "u", "v", "x">>
Modifiers == {"~", "^", "=", "<"}

IsDigit(c) == \E i \in 1..Len(Digits) : Digits[i] = c
DigitVal(c) == (CHOOSE i \in 1..Len(Digits) : Digits[i] = c) - 1
IsLetter(c) == \E i \in 1..Len(Letters) : Letters[i] = c
LetterRank(c) == CHOOSE i \in 1..Len(Letters) : Letters[i] = c

\* ---------------------------------------------------------------- strings
\* s.slice(from) with 1-based from.
Slice(s, from) == SubSeq(s, from, Len(s))

\* left occurs in s at position i.
MatchAt(s, left, i) ==
    /\ i + Len(left) - 1 <= Len(s)
    /\ \A j \in 1..Len(left) : s[i + j - 1] = left[j]

\* s.includes(c) for a one-character c.
Includes(s, c) == \E i \in 1..Len(s) : s[i] = c

\* The first position >= from at which c occurs in s, or Len(s) + 1.
IndexFrom(s, c, from) ==
    IF \E i \in from..Len(s) : s[i] = c
    THEN CHOOSE i \in from..Len(s) : s[i] = c /\ \A j \in from..(i - 1) : s[j] # c
    ELSE Len(s) + 1

RECURSIVE SplitJoinFrom(_, _, _, _)
SplitJoinFrom(s, left, right, i) ==
    IF i > Len(s) THEN <<>>
    ELSE IF MatchAt(s, left, i)
         THEN right \o SplitJoinFrom(s, left, right, i + Len(left))
         ELSE <<s[i]>> \o SplitJoinFrom(s, left, right, i + 1)

RECURSIVE Interleave(_, _, _)
Interleave(s, right, i) ==
    IF i > Len(s) THEN <<>>
    ELSE IF i = Len(s) THEN <<s[i]>>
    ELSE <<s[i]>> \o right \o Interleave(s, right, i + 1)

\* A mutant of SplitJoin: only the first occurrence is substituted
\* (String.prototype.replace with a string pattern).
SplitJoinFirstOnly(s, left, right) ==
    IF \E i \in 1..Len(s) : MatchAt(s, left, i)
    THEN LET i == CHOOSE k \in 1..Len(s) :
                    MatchAt(s, left, k) /\ \A j \in 1..(k - 1) : ~MatchAt(s, left, j)
         IN  SubSeq(s, 1, i - 1) \o right \o Slice(s, i + Len(left))
    ELSE s

\* content.split(left).join(right): every occurrence of left, found from left
\* to right without overlap, becomes right.  An empty left splits s into its
\* characters.
SplitJoin(s, left, right) ==
    IF Len(left) = 0 THEN Interleave(s, right, 1)
    ELSE SplitJoinFrom(s, left, right, 1)

\* ------------------------------------------------- registry.ts (RegistryUrl)
\* The position of the "@" that starts the version token of url.
AtSign(url) == IndexFrom(url, "@", 1)

\* The position just after the version token: the first "/" after the "@",
\* or the end of url.
TokenEnd(url) == IndexFrom(url, "/", AtSign(url) + 1)

\* RegistryUrl.version(): the version token as it appears in url.
Version(url) == SubSeq(url, AtSign(url) + 1, TokenEnd(url) - 1)

\* RegistryUrl.at(version).url: url with the version token replaced, the path
\* and the fragment kept.
At(url, version) ==
    SubSeq(url, 1, AtSign(url)) \o version \o Slice(url, TokenEnd(url))

\* A registry recognises url: its prefix, a non-empty version token and a path.
RegistryMatches(url) ==
    /\ Len(url) >= 5
    /\ url[1] = "f" /\ url[2] = "@"
    /\ TokenEnd(url) > 3
    /\ TokenEnd(url) <= Len(url)

\* ----------------------------------------------------- search.ts (importUrls)
\* The blank-separated words of content, in the order of the text.
RECURSIVE Words(_, _)
Words(content, from) ==
    IF from > Len(content) THEN <<>>
    ELSE LET to == IndexFrom(content, Sep, from)
         IN  IF to = from THEN Words(content, from + 1)
             ELSE <<SubSeq(content, from, to - 1)>> \o Words(content, to + 1)

\* importUrls followed by lookup: the words of content a registry recognises,
\* in scan order (a URL that occurs twice is listed twice).
ImportUrls(content) == SelectSeq(Words(content, 1), RegistryMatches)

\* ------------------------------------------------------- semver.ts (Semver)
\* text follows MAJOR.MINOR.PATCH[-PRERELEASE], every number one digit long
\* and the prerelease one alphanumeric identifier.
IsSemver(text) ==
    /\ Len(text) >= 5
    /\ IsDigit(text[1]) /\ text[2] = "." /\ IsDigit(text[3])
    /\ text[4] = "." /\ IsDigit(text[5])
    /\ \/ Len(text) = 5
       \/ /\ Len(text) >= 7
          /\ text[6] = "-"
          /\ \A i \in 7..Len(text) : IsDigit(text[i]) \/ IsLetter(text[i])

\* new Semver(text) for a text that IsSemver accepts.
Semver(text) ==
    [major |-> DigitVal(text[1]), minor |-> DigitVal(text[3]),
     patch |-> DigitVal(text[5]), prerelease |-> Slice(text, 7), version |-> text]

\* getPrereleaseVersion(text) != null: text is a version with a prerelease.
IsPrerelease(text) == IsSemver(text) /\ Len(text) > 5

\* The rank of a character in the order of prerelease identifiers: digits
\* before letters.
CharRank(c) == IF IsDigit(c) THEN DigitVal(c) ELSE 10 + LetterRank(c)

\* Lexicographic order of two prerelease identifiers.
RECURSIVE IdentLt(_, _, _)
IdentLt(a, b, i) ==
    IF i > Len(b) THEN FALSE
    ELSE IF i > Len(a) THEN TRUE
    ELSE IF a[i] = b[i] THEN IdentLt(a, b, i + 1)
    ELSE CharRank(a[i]) < CharRank(b[i])

\* Semver precedence: a < b.
SemverLt(a, b) ==
    \/ a.major < b.major
    \/ a.major = b.major /\ a.minor < b.minor
    \/ a.major = b.major /\ a.minor = b.minor /\ a.patch < b.patch
    \/ /\ a.major = b.major /\ a.minor = b.minor /\ a.patch = b.patch
       /\ \/ Len(a.prerelease) > 0 /\ Len(b.prerelease) = 0
          \/ /\ Len(a.prerelease) > 0 /\ Len(b.prerelease) > 0
             /\ IdentLt(a.prerelease, b.prerelease, 1)

SemverEq(a, b) ==
    /\ a.major = b.major /\ a.minor = b.minor /\ a.patch = b.patch
    /\ a.prerelease = b.prerelease

\* The constraint of modifier kind on base, applied to other.
Satisfies(kind, base, other) ==
    CASE kind = "=" -> SemverEq(base, other)
      [] kind = "<" -> SemverLt(other, base)
      [] kind = "~" -> /\ other.major = base.major /\ other.minor = base.minor
                       /\ ~SemverLt(other, base)
      [] kind = "^" ->
            IF base.major > 0
            THEN other.major = base.major /\ ~SemverLt(other, base)
            ELSE IF base.minor > 0
            THEN /\ other.major = 0 /\ other.minor = base.minor
                 /\ ~SemverLt(other, base)
            ELSE /\ other.major = 0 /\ other.minor = 0
                 /\ other.patch = base.patch

\* The text after the first "#" of url, up to the next "#".
FragmentText(url) ==
    LET h == IndexFrom(url, "#", 1)
    IN  SubSeq(url, h + 1, IndexFrom(url, "#", h + 1) - 1)

\* fragment(url, version): no constraint for a url without "#"; the constraint
\* of a one-character modifier; a SyntaxError for any other fragment text.
Fragment(url, version) ==
    IF ~Includes(url, "#") THEN [kind |-> "undefined"]
    ELSE LET frag == FragmentText(url)
         IN  IF Len(frag) = 1 /\ frag[1] \in Modifiers
             THEN [kind |-> "filter", modifier |-> frag[1], base |-> Semver(version)]
             ELSE [kind |-> "SyntaxError",
                   message |-> <<"invalid semver fragment: ">> \o frag]

\* --------------------------------------------------------- deps.ts (colors)
\* The escape sequences colors.yellow puts around a text.
YellowOpen == "ESC[33m"
YellowClose == "ESC[39m"

\* colors.yellow(text): text between the escape sequences (colours are on
\* unless NO_COLOR is set, and then the text is returned as it is).
Yellow(text) == <<YellowOpen>> \o text \o <<YellowClose>>

\* What a terminal shows of text: the escape sequences removed.
IsVisible(c) == c # YellowOpen /\ c # YellowClose
Visible(text) == SelectSeq(text, IsVisible)

\* ------------------------------------------------------ mod.ts, Udd.update
\* The text JavaScript gives the value undefined in a template or a
\* concatenation (versions[0] of an empty list).
Undefined == <<"u", "n", "d", "e", "f", "i", "n", "e", "d">>

NoToken == <<>>

\* Line 88: the version token starts with a modifier and url has no fragment.
Relocates(initVersion, url) ==
    initVersion[1] \in Modifiers /\ ~Includes(url, "#")

\* A mutant of Relocated: the modifier is copied into the fragment and left
\* in the version token.
RelocatedKeepsModifier(initVersion, url) == url \o <<"#", initVersion[1]>>

\* Lines 89-90: the url with the modifier moved into a fragment.
Relocated(initVersion, url) ==
    At(url, Slice(initVersion, 2)) \o <<"#", initVersion[1]>>

\* A mutant of Skips: no version token is taken for a branch name.
SkipsNothing(url) == FALSE

\* Lines 93-99: new Semver(url.version()) throws, the update is skipped.
Skips(url) == ~IsSemver(Version(url))

\* A mutant of NotPrerelease: every version is kept.
KeepsEveryVersion(version) == TRUE

\* Line 105: the predicate of the filter on the fetched versions.
NotPrerelease(version) == ~IsPrerelease(version)

\* Lines 101-106: the candidates among the fetched versions.
Candidates(initVersion, versions) ==
    IF ~IsPrerelease(initVersion) THEN SelectSeq(versions, NotPrerelease)
    ELSE versions

\* A mutant of Compatible: the constraint is not applied.
CompatibleUnfiltered(versions, filter) == SelectSeq(versions, IsSemver)

\* Lines 129-131: the versions that parse and satisfy the constraint, in the
\* order of versions.
Compatible(versions, filter) ==
    LET ok(v) == IsSemver(v) /\ Satisfies(filter.modifier, filter.base, Semver(v))
    IN  SelectSeq(versions, ok)

\* A mutant of Caught: a SyntaxError is thrown on like any other error.
CaughtNothing(kind) == FALSE

\* Line 115: the errors of fragment() that update turns into an outcome.
Caught(kind) == kind = "SyntaxError"

\* A mutant of SkipsReplace: a view of the file is never left alone.
SkipsReplaceNever(dryRun) == FALSE

\* Line 154: a dry run does not reach maybeReplace.
SkipsReplace(dryRun) == dryRun

\* A mutant of Message: the fragment is left out.
MessageWithoutFragment(newVersion, newFragmentToken) == newVersion

\* Lines 160-166: the message of an outcome that reports a target.
Message(newVersion, newFragmentToken) ==
    LET maybeFragment == IF newFragmentToken = NoToken THEN <<>>
                         ELSE <<"#">> \o newFragmentToken
    IN  newVersion \o Yellow(maybeFragment)

\* A mutant of NoChange: the current version is written again.
NoChangeNever(version, newVersion, newFragmentToken) == FALSE

\* Line 148: the target is the version the url has, and no modifier was moved.
NoChange(version, newVersion, newFragmentToken) ==
    version = newVersion /\ newFragmentToken = NoToken

\* A mutant of Neutral: the outcome says which version is in use.
NeutralWithMessage(l) ==
    [initUrl |-> l.initUrl, initVersion |-> l.initVersion,
     message |-> l.initVersion]

\* Lines 80-151 after all() has returned versions: the locals of update and
\* the way it goes on (e is the error caught at line 114).  thrown stands for
\* an error of fragment() other than a SyntaxError, which only a faulty parser
\* raises.
Resolve(initUrl, versions, thrown) ==
    LET initVersion == Version(initUrl)
        moved == Relocates(initVersion, initUrl)
        newFragmentToken == IF moved THEN <<initVersion[1]>> ELSE NoToken
        url == IF moved THEN Relocated(initVersion, initUrl) ELSE initUrl
        locals == [initUrl |-> initUrl, initVersion |-> initVersion,
                   newFragmentToken |-> newFragmentToken, url |-> url,
                   fetched |-> versions]
    IN  IF Skips(url) THEN [step |-> "skip"] @@ locals
        ELSE
        LET candidates == Candidates(initVersion, versions)
            first == IF Len(candidates) = 0 THEN Undefined ELSE candidates[1]
            parsed == IF thrown THEN [kind |-> "Error", message |-> <<"fault">>]
                      ELSE Fragment(url, Version(url))
        IN  IF parsed.kind \notin {"undefined", "filter"}
            THEN IF Caught(parsed.kind)
                 THEN [step |-> "syntax", e |-> parsed] @@ locals
                 ELSE [step |-> "throw", e |-> parsed] @@ locals
            ELSE
            LET compatible == IF parsed.kind = "filter"
                              THEN Compatible(candidates, parsed) ELSE <<>>
            IN  IF parsed.kind = "filter" /\ Len(compatible) = 0
                THEN [step |-> "incompatible"] @@ locals
                ELSE
                LET chosen == IF parsed.kind = "filter" THEN compatible[1] ELSE first
                    newVersion == newFragmentToken \o chosen
                    more == [candidates |-> candidates, filter |-> parsed,
                             newVersion |-> newVersion] @@ locals
                IN  IF NoChange(Version(url), newVersion, newFragmentToken)
                    THEN [step |-> "nochange"] @@ more
                    ELSE [step |-> "replace",
                          newUrl |-> At(url, newVersion)] @@ more

\* ------------------------------------------------------------ the inputs
V100 == <<"1", ".", "0", ".", "0">>
V120 == <<"1", ".", "2", ".", "0">>
V200 == <<"2", ".", "0", ".", "0">>
V100b == <<"1", ".", "0", ".", "0", "-", "b">>
V130b == <<"1", ".", "3", ".", "0", "-", "b">>
Dev == <<"d", "e", "v">>

\* The import URL of version token token with fragment text frag.
Url(token, frag) == <<"f", "@">> \o token \o <<"/", "m">> \o frag

\* The import URLs a file is written from: a release, a token with a modifier,
\* a constraint fragment, a branch name, a malformed fragment, a prerelease.
RefUniverse ==
    { Url(V100, <<>>), Url(<<"^">> \o V100, <<>>), Url(V200, <<"#", "<">>),
      Url(Dev, <<>>), Url(V100, <<"#", "x">>), Url(V100b, <<>>) }

\* The versions a registry lists.
VersionUniverse == { V100, V120, V200, V130b }

\* The sequences over S of length at most n.
SeqsUpTo(S, n) == UNION { [1..k -> S] : k \in 0..n }

\* The lists a registry answers with: no version twice, in any order.
VersionLists ==
    { l \in SeqsUpTo(VersionUniverse, MaxVersions) :
        \A a, b \in 1..Len(l) : a # b => l[a] # l[b] }

\* The text of a file that imports refs.
RECURSIVE FileOf(_)
FileOf(refs) ==
    IF Len(refs) = 0 THEN <<"i">>
    ELSE FileOf(SubSeq(refs, 1, Len(refs) - 1)) \o <<Sep>> \o refs[Len(refs)]

Files == { FileOf(refs) : refs \in SeqsUpTo(RefUniverse, MaxRefs) }

\* ------------------------------------------------------------- the state
VARIABLES
    content,    \* the text of the file (Deno.readFile / Deno.writeFile)
    content0,   \* the text of the file when run() was called
    dryRun,     \* options.dryRun
    registry,   \* the list all() answers with during this run
    faulty,     \* fragment() may raise an error that is no SyntaxError
    pc,         \* where run() stands
    urls,       \* run's urls
    i,          \* the 1-based index of the reference run() is at
    results,    \* run's results
    cur,        \* the locals of the call of update in progress, or of the last
    log         \* the fetches, writes and validations so far

vars == <<content, content0, dryRun, registry, faulty, pc, urls, i,
          results, cur, log>>

inputs == <<content0, dryRun, registry, faulty>>

\* The state when run() is called by a parser whose faults are in may.
InitWith(may) ==
    /\ content \in Files
    /\ content0 = content
    /\ dryRun \in BOOLEAN
    /\ registry \in VersionLists
    /\ faulty \in may
    /\ pc = "start"
    /\ urls = <<>>
    /\ i = 1
    /\ results = <<>>
    /\ cur = [step |-> "none"]
    /\ log = <<>>

Init == InitWith({FALSE})

Event(ev, ok) == [ev |-> ev, ref |-> i, ok |-> ok]

\* The outcome of lines 98 and 150.
Neutral(l) == [initUrl |-> l.initUrl, initVersion |-> l.initVersion]

\* The outcome of lines 116-121, 133-138 and 163-168.
Outcome(l, message, success) ==
    [initUrl |-> l.initUrl, initVersion |-> l.initVersion,
     message |-> message, success |-> success]

NoCompatible == <<"no compatible version found">>

\* Line 71: update has returned outcome, the loop goes to the next url.
Push(outcome) ==
    /\ results' = Append(results, outcome)
    /\ i' = i + 1
    /\ pc' = "update"

\* Lines 59-63: run reads the file and scans it for import URLs.
Scan ==
    /\ pc = "start"
    /\ urls' = ImportUrls(content)
    /\ pc' = "update"
    /\ UNCHANGED <<content, inputs, i, results, cur, log>>

\* A mutant of AfterFetchError: the failed reference is given up and the
\* loop goes on.
AfterFetchErrorSwallowed == "update"

\* Line 84: nothing catches an error of all(); it leaves update and run.
AfterFetchError == "thrown"

\* Line 84, all() fails.
FetchFail ==
    /\ pc = "update" /\ i <= Len(urls)
    /\ log' = Append(log, Event("fetch", FALSE))
    /\ pc' = AfterFetchError
    /\ i' = IF AfterFetchError = "thrown" THEN i ELSE i + 1
    /\ UNCHANGED <<content, inputs, urls, results, cur>>

\* Lines 80-168 up to the call of maybeReplace, all() answering registry.
Fetch ==
    /\ pc = "update" /\ i <= Len(urls)
    /\ \E thrown \in (IF faulty THEN BOOLEAN ELSE {FALSE}) :
        LET l == Resolve(urls[i], registry, thrown)
        IN  /\ cur' = l
            /\ log' = Append(log, Event("fetch", TRUE))
            /\ IF l.step \in {"skip", "nochange"} THEN Push(Neutral(l))
               ELSE IF l.step = "syntax" THEN Push(Outcome(l, l.e.message, FALSE))
               ELSE IF l.step = "incompatible"
                    THEN Push(Outcome(l, NoCompatible, FALSE))
               ELSE IF l.step = "throw"
                    THEN pc' = "thrown" /\ UNCHANGED <<i, results>>
               ELSE IF SkipsReplace(dryRun)
                    THEN Push(Outcome(l, Message(l.newVersion, l.newFragmentToken),
                                      TRUE))
               ELSE pc' = "replace" /\ UNCHANGED <<i, results>>
    /\ UNCHANGED <<content, inputs, urls>>

\* Lines 177-178 and 187-192: the forward replace, initUrl -> newUrl.
Replace ==
    /\ pc = "replace"
    /\ content' = SplitJoin(content, cur.initUrl, cur.newUrl)
    /\ cur' = [before |-> content] @@ cur
    /\ log' = Append(log, Event("write", TRUE))
    /\ pc' = "test"
    /\ UNCHANGED <<inputs, urls, i, results>>

\* A mutant of Failed: the error of the validation is lost.
FailedNever(threw) == FALSE

\* Line 180: failed is whether the validation callback threw.
Failed(threw) == threw

\* Lines 180-184 and 157-168: the validation callback runs; without a
\* failure update reports the target.
Test ==
    /\ pc = "test"
    /\ \E threw \in BOOLEAN :
        /\ log' = Append(log, Event("test", ~threw))
        /\ IF Failed(threw)
           THEN pc' = "rollback" /\ UNCHANGED <<i, results>>
           ELSE Push(Outcome(cur, Message(cur.newVersion, cur.newFragmentToken),
                        TRUE))
    /\ UNCHANGED <<content, inputs, urls, cur>>

\* Lines 181-184 and 157-168: the replace back, newUrl -> initUrl, and the
\* outcome of the failed update.
Rollback ==
    /\ pc = "rollback"
    /\ content' = SplitJoin(content, cur.newUrl, cur.initUrl)
    /\ log' = Append(log, Event("rollback", TRUE))
    /\ Push(Outcome(cur, Message(cur.newVersion, cur.newFragmentToken), FALSE))
    /\ UNCHANGED <<inputs, urls, cur>>

\* Line 74: run returns results.
Return ==
    /\ pc = "update" /\ i > Len(urls)
    /\ pc' = "done"
    /\ UNCHANGED <<content, inputs, urls, i, results, cur, log>>

Next == Scan \/ Fetch \/ FetchFail \/ Replace \/ Test \/ Rollback \/ Return

Spec == Init /\ [][Next]_vars

\* A mutant of AfterInterrupt: a handler writes the original url back.
AfterInterruptRecovered == "rollback"

\* Line 7: nothing catches an interrupt, the process ends where it stands.
AfterInterrupt == "interrupted"

\* Line 7: the process is interrupted (ctrl-c) while run() is under way.
Interrupt ==
    /\ pc \notin {"done", "thrown", "interrupted"}
    /\ log' = Append(log, Event("interrupt", TRUE))
    /\ pc' = IF pc = "test" THEN AfterInterrupt ELSE "interrupted"
    /\ UNCHANGED <<content, inputs, urls, i, results, cur>>

NextInterrupt == Next \/ Interrupt

\* The runs that may be interrupted.
SpecInterrupt == Init /\ [][NextInterrupt]_vars

\* The runs in which the parser of fragments may be faulty.
InitFault == InitWith({TRUE})

SpecFault == InitFault /\ [][Next]_vars

\* ---------------------------------------------------------- the claims
\* The positions of the log at which reference ref has an event ev.
EventsOf(ref, ev) == { n \in 1..Len(log) : log[n].ref = ref /\ log[n].ev = ev }

\* The file was written, or the validation callback called, for reference ref.
Touched(ref) ==
    \E n \in 1..Len(log) : log[n].ref = ref /\ log[n].ev \in {"write", "test", "rollback"}

\* update has just returned: cur holds its locals and the last of results its
\* outcome.
Returned ==
    /\ pc \in {"update", "done"}
    /\ Len(results) > 0
    /\ Len(results) = i - 1
    /\ cur.step # "none"

LastOutcome == results[Len(results)]

\* The text the outcome of a resolved target shows: the new version token and
\* the fragment of a relocated modifier.
Reported(l) ==
    l.newVersion \o (IF l.newFragmentToken = NoToken THEN <<>>
                     ELSE <<"#">> \o l.newFragmentToken)

\* text with left at the start of a word substituted by right, word by word.
RECURSIVE Reworded(_, _, _)
Reworded(ws, left, right) ==
    IF Len(ws) = 0 THEN <<>>
    ELSE LET w == ws[1]
             v == IF MatchAt(w, left, 1) THEN right \o Slice(w, Len(left) + 1) ELSE w
         IN  <<v>> \o Reworded(Tail(ws), left, right)

RECURSIVE Joined(_)
Joined(ws) ==
    IF Len(ws) = 0 THEN <<>>
    ELSE IF Len(ws) = 1 THEN ws[1]
    ELSE ws[1] \o <<Sep>> \o Joined(Tail(ws))

\* C1 as stated: after a run that is no dry run and in which every call of the
\* validation callback failed, the file holds the text it held before the run.
C1_RollbackLaw ==
    ( /\ pc = "done" /\ ~dryRun
      /\ \A n \in 1..Len(log) : log[n].ev = "test" => ~log[n].ok )
    => content = content0

\* The validation of the reference just updated succeeded.
Committed ==
    /\ Returned /\ ~dryRun
    /\ log[Len(log)] = [ev |-> "test", ref |-> i - 1, ok |-> TRUE]

\* The file after a commit: the text read by the replace with initUrl
\* substituted by at(target).url wherever it occurs, and no write back.
CommittedFile ==
    /\ content = Joined(Reworded(Words(cur.before, 1), cur.initUrl,
                                 At(cur.url, cur.newVersion)))
    /\ EventsOf(i - 1, "rollback") = {}
    /\ Cardinality(EventsOf(i - 1, "write")) = 1

C3_DryRun ==
    dryRun =>
        /\ content = content0
        /\ \A n \in 1..Len(log) : log[n].ev = "fetch"
        /\ pc \notin {"replace", "test", "rollback"}
        /\ (Returned /\ cur.step = "replace") =>
              /\ LastOutcome.success = TRUE
              /\ Visible(LastOutcome.message) = Reported(cur)

\* A dry run that resolved the target 1.2.0 for 1.0.0 and returned.
C3_Witness ==
    /\ dryRun /\ pc = "done"
    /\ Len(results) = 2
    /\ cur.step = "replace"
    /\ results[1].initVersion = V100
    /\ "success" \in DOMAIN results[1]
    /\ Visible(results[1].message) = V120
    /\ content = content0

\* The loop of run goes to the next reference whenever an outcome is added:
\* no outcome, of whatever kind, ends it.
GoesOn == results' # results => (pc' = "update" /\ i' = i + 1 /\ Len(results') = i)

\* C4: the outcomes follow the scan order, one for each reference the loop
\* has passed, and every outcome, a failure too, hands over to the next
\* reference; only a failed fetch ends the run without results; so a run that
\* returns has one outcome for each import URL of the file.
C4_Isolation ==
    /\ [](/\ Len(results) <= Len(urls)
          /\ \A k \in 1..Len(results) : results[k].initUrl = urls[k]
          /\ pc # "start" => urls = ImportUrls(content0)
          /\ pc \in {"update", "done"} => Len(results) = i - 1
          /\ pc = "thrown" =>
                (Len(log) > 0 /\ log[Len(log)].ev = "fetch" /\ ~log[Len(log)].ok)
          /\ pc = "done" => Len(results) = Len(ImportUrls(content0)))
    /\ [][GoesOn]_vars

\* A run that returned two outcomes after the first reference ended in a
\* syntax error and the second in a failed validation.
C4_Witness ==
    /\ pc = "done"
    /\ Len(results) = 2
    /\ results[1].initUrl = Url(V100, <<"#", "x">>)
    /\ "success" \in DOMAIN results[1] /\ results[1].success = FALSE
    /\ results[2].initUrl = Url(V100, <<>>)
    /\ "success" \in DOMAIN results[2] /\ results[2].success = FALSE
    /\ EventsOf(2, "rollback") # {}

\* C5: a failed fetch is the last thing a run does: the failed reference has
\* no outcome, and no step follows (no retry, no fetch, write or validation
\* for a later reference, no return of results).
C5_FatalFetch ==
    /\ [](\A n \in 1..Len(log) :
            (log[n].ev = "fetch" /\ ~log[n].ok) =>
                /\ n = Len(log)
                /\ pc = "thrown"
                /\ i = log[n].ref
                /\ Len(results) = log[n].ref - 1
                /\ Cardinality(EventsOf(log[n].ref, "fetch")) = 1)
    /\ [][pc # "thrown"]_vars

\* The fetch of the first of two references failed.
C5_Witness ==
    /\ pc = "thrown"
    /\ Len(urls) = 2
    /\ i = 1
    /\ results = <<>>
    /\ log = <<[ev |-> "fetch", ref |-> 1, ok |-> FALSE]>>
    /\ content = content0

\* The version update chose, without the modifier put back in front of it.
Chosen(l) == Slice(l.newVersion, Len(l.newFragmentToken) + 1)

\* update chose a target for the reference it was called for last.
Targeted == cur.step \in {"nochange", "replace"}

\* C6: when initVersion has no prerelease, no candidate and no chosen or
\* written target is a prerelease, wherever prereleases stand in the fetched
\* list; when initVersion is a prerelease, every fetched version stays a
\* candidate.
C6_Prerelease ==
    Targeted =>
        IF IsPrerelease(cur.initVersion)
        THEN cur.candidates = cur.fetched
        ELSE /\ \A n \in 1..Len(cur.candidates) : ~IsPrerelease(cur.candidates[n])
             /\ ~IsPrerelease(Chosen(cur))
             /\ cur.step = "replace" =>
                   ~IsPrerelease(Slice(Version(cur.newUrl), Len(cur.newFragmentToken) + 1))
             /\ \A n \in 1..Len(cur.fetched) :
                   ~IsPrerelease(cur.fetched[n]) =>
                       \E m \in 1..Len(cur.candidates) : cur.candidates[m] = cur.fetched[n]

\* A prerelease reference committed to a prerelease target.
C6_Witness ==
    /\ Committed
    /\ cur.initVersion = V100b
    /\ Chosen(cur) = V130b
    /\ content = FileOf(<<Url(V130b, <<>>)>>)

\* The fetched versions left after the prerelease policy.
PrereleaseFiltered(l) ==
    IF IsPrerelease(l.initVersion) THEN l.fetched
    ELSE SelectSeq(l.fetched, LAMBDA v : ~IsPrerelease(v))

\* version satisfies the constraint of l's url: its fragment modifier applied
\* to its version.
MeetsConstraint(l, version) ==
    /\ IsSemver(version)
    /\ Satisfies(l.url[Len(l.url)], Semver(Version(l.url)), Semver(version))

\* C7: under a constraint (a fragment in the url, relocated or not) the
\* target is the first version of the prerelease-filtered fetched list, in
\* its order, that satisfies the constraint; without a constraint it is the
\* first of that list (undefined when the list is empty).
C7_Target ==
    Targeted =>
        LET list == PrereleaseFiltered(cur)
        IN  IF Includes(cur.url, "#")
            THEN \E n \in 1..Len(list) :
                    /\ list[n] = Chosen(cur)
                    /\ MeetsConstraint(cur, list[n])
                    /\ \A m \in 1..(n - 1) : ~MeetsConstraint(cur, list[m])
            ELSE Chosen(cur) = (IF Len(list) = 0 THEN Undefined ELSE list[1])

\* Under "<" of 2.0.0 the second of the listed versions is written.
C7_Witness ==
    /\ Committed
    /\ cur.initUrl = Url(V200, <<"#", "<">>)
    /\ registry = <<V200, V100>>
    /\ Chosen(cur) = V100
    /\ content = FileOf(<<Url(V100, <<"#", "<">>)>>)

\* The url a relocation of l's modifier gives, and the url with target in it.
Stripped(l) == Slice(l.initVersion, 2)
ModifierOf(l) == <<l.initVersion[1]>>

\* What C8 says of the relocation and the resolution: the modifier moves into
\* a fragment, once (the relocated url and the url written are relocated no
\* further), the target is the first candidate that satisfies the modifier's
\* constraint on the stripped version, and the new version token is the
\* modifier followed by the target.
C8_Resolution ==
    (cur.step # "none" /\ Relocates(cur.initVersion, cur.initUrl)) =>
        /\ cur.newFragmentToken = ModifierOf(cur)
        /\ cur.url = Url(Stripped(cur), <<"#">> \o ModifierOf(cur))
        /\ ~Relocates(Version(cur.url), cur.url)
        /\ Targeted =>
              LET list == PrereleaseFiltered(cur)
                  meets(v) == /\ IsSemver(v)
                              /\ Satisfies(cur.initVersion[1], Semver(Stripped(cur)),
                                           Semver(v))
              IN  /\ \E n \in 1..Len(list) :
                        /\ list[n] = Chosen(cur)
                        /\ meets(list[n])
                        /\ \A m \in 1..(n - 1) : ~meets(list[m])
                  /\ cur.newVersion = ModifierOf(cur) \o Chosen(cur)
                  /\ cur.step = "replace"
                  /\ cur.newUrl = Url(cur.newVersion, <<"#">> \o ModifierOf(cur))
                  /\ ~Relocates(Version(cur.newUrl), cur.newUrl)

\* update reported the target of a relocated reference.
RelocatedReported ==
    /\ Returned /\ cur.step = "replace"
    /\ Relocates(cur.initVersion, cur.initUrl)

C9_Skip ==
    /\ [](cur.step # "none" =>
            /\ cur.step = "skip" <=> ~IsSemver(Version(cur.url))
            /\ (Returned /\ cur.step = "skip") =>
                  /\ LastOutcome = [initUrl |-> urls[i - 1],
                                    initVersion |-> Version(urls[i - 1])]
                  /\ ~Touched(i - 1))
    /\ [][(cur'.step = "skip" /\ cur' # cur) =>
              (pc' = "update" /\ i' = i + 1 /\ content' = content)]_vars

\* The branch name dev was skipped and the reference after it committed.
C9_Witness ==
    /\ Committed
    /\ Len(results) = 2
    /\ results[1] = [initUrl |-> Url(Dev, <<>>), initVersion |-> Dev]
    /\ results[2].initUrl = Url(V100, <<>>)
    /\ content = FileOf(<<Url(Dev, <<>>), Url(V120, <<>>)>>)

\* C10: a SyntaxError of fragment() becomes the outcome of a failure with the
\* text of the error, nothing is written or validated for the reference and
\* the loop goes on; any other error of fragment() leaves update and run:
\* no outcome, no write, no validation, and no step after it.
C10_SyntaxError ==
    /\ [](cur.step # "none" =>
            /\ cur.step \in {"syntax", "throw"} <=> "e" \in DOMAIN cur
            /\ "e" \in DOMAIN cur =>
                  (cur.step = "syntax" <=> cur.e.kind = "SyntaxError")
            /\ (IsSemver(Version(cur.url)) /\ ~faulty) =>
                  (cur.step = "syntax" <=>
                      (Includes(cur.url, "#") /\ FragmentText(cur.url) \notin
                          { <<m>> : m \in Modifiers }))
            /\ (Returned /\ cur.step = "syntax") =>
                  /\ LastOutcome = [initUrl |-> urls[i - 1],
                                    initVersion |-> Version(urls[i - 1]),
                                    success |-> FALSE,
                                    message |-> cur.e.message]
                  /\ cur.e.message = <<"invalid semver fragment: ">> \o
                                        FragmentText(cur.url)
                  /\ ~Touched(i - 1)
            /\ cur.step = "throw" =>
                  /\ pc = "thrown"
                  /\ Len(results) = i - 1
                  /\ ~Touched(i)
                  /\ log[Len(log)] = [ev |-> "fetch", ref |-> i, ok |-> TRUE])
    /\ [][pc # "thrown"]_vars
    /\ [][(cur'.step = "syntax" /\ cur' # cur) =>
              (pc' = "update" /\ i' = i + 1 /\ content' = content)]_vars

\* A malformed fragment ended in a failure outcome, and the parsing for the
\* next reference raised an error that is no SyntaxError.
C10_Witness ==
    /\ pc = "thrown"
    /\ cur.step = "throw"
    /\ Len(results) = 1
    /\ results[1].initUrl = Url(V100, <<"#", "x">>)
    /\ results[1].success = FALSE
    /\ results[1].message = <<"invalid semver fragment: ", "x">>
    /\ content = content0

\* The fragment of l's url is one of the modifiers: a constraint exists.
Constrained(l) ==
    /\ Includes(l.url, "#")
    /\ FragmentText(l.url) \in { <<m>> : m \in Modifiers }

\* C11: update ends with "no compatible version found" exactly when the url
\* carries a constraint and no version of the prerelease-filtered fetched list
\* satisfies it; the outcome is then the failure with that message, and
\* nothing was written or validated for the reference.
C11_NoCompatible ==
    cur.step # "none" =>
        /\ cur.step = "incompatible" <=>
              /\ IsSemver(Version(cur.url))
              /\ Constrained(cur)
              /\ \A n \in 1..Len(PrereleaseFiltered(cur)) :
                    ~MeetsConstraint(cur, PrereleaseFiltered(cur)[n])
        /\ (Returned /\ cur.step = "incompatible") =>
              /\ LastOutcome = [initUrl |-> urls[i - 1],
                                initVersion |-> Version(urls[i - 1]),
                                success |-> FALSE,
                                message |-> NoCompatible]
              /\ ~Touched(i - 1)
              /\ pc \notin {"replace", "test", "rollback"}

\* Under "<" of 2.0.0 the registry lists 2.0.0 and the prerelease 1.3.0-b:
\* the prerelease is filtered out and nothing is left below 2.0.0.
C11_Witness ==
    /\ Returned
    /\ cur.step = "incompatible"
    /\ cur.initUrl = Url(V200, <<"#", "<">>)
    /\ cur.fetched = <<V200, V130b>>
    /\ LastOutcome.message = NoCompatible
    /\ ~dryRun
    /\ content = content0

\* C12: update ends with the outcome of initUrl and initVersion alone, without
\* a write or a validation, exactly when the chosen version is the version of
\* the url and no modifier was moved; after a relocation the update goes on to
\* the replace step also when the chosen version is the current one, and a
\* run that is no dry run writes the file.
C12_NoChange ==
    cur.step # "none" =>
        /\ cur.step = "nochange" <=>
              /\ Targeted
              /\ Chosen(cur) = Version(cur.url)
              /\ ~Relocates(cur.initVersion, cur.initUrl)
        /\ (Returned /\ cur.step = "nochange") =>
              /\ LastOutcome = [initUrl |-> urls[i - 1],
                                initVersion |-> Version(urls[i - 1])]
              /\ ~Touched(i - 1)
        /\ (Targeted /\ Relocates(cur.initVersion, cur.initUrl)) =>
              /\ cur.step = "replace"
              /\ (Returned /\ ~dryRun) => EventsOf(i - 1, "write") # {}

\* 1.0.0 is the only version listed: the reference at 1.0.0 is left alone,
\* the reference at ^1.0.0 is rewritten with its modifier in a fragment.
C12_Witness ==
    /\ Committed
    /\ registry = <<V100>>
    /\ Len(results) = 2
    /\ results[1] = [initUrl |-> Url(V100, <<>>), initVersion |-> V100]
    /\ ~Touched(1)
    /\ cur.initUrl = Url(<<"^">> \o V100, <<>>)
    /\ Chosen(cur) = Version(cur.url)
    /\ content = FileOf(<<Url(V100, <<>>), Url(<<"^">> \o V100, <<"#", "^">>)>>)

\* C13: every outcome carries the url and the version token the scan found
\* (not those of the url after a relocation), and has a message exactly when
\* it has a success; an outcome without success comes from the skip of a
\* non-semver token or from the no-change return only, and nothing was
\* written for its reference.
C13_Shape ==
    /\ \A k \in 1..Len(results) :
          /\ k <= Len(urls)
          /\ results[k].initUrl = urls[k]
          /\ results[k].initVersion = Version(urls[k])
          /\ DOMAIN results[k] \in
                { {"initUrl", "initVersion"},
                  {"initUrl", "initVersion", "message", "success"} }
          /\ "success" \notin DOMAIN results[k] => ~Touched(k)
    /\ pc # "start" => urls = ImportUrls(content0)
    /\ (Returned /\ "success" \notin DOMAIN LastOutcome) =>
          cur.step \in {"skip", "nochange"}

\* A run returned a skip, without message and success, and the failed update
\* of ^1.0.0, reported under the url and the token the scan found.
C13_Witness ==
    /\ pc = "done"
    /\ Len(results) = 2
    /\ results[1] = [initUrl |-> Url(Dev, <<>>), initVersion |-> Dev]
    /\ results[2].initUrl = Url(<<"^">> \o V100, <<>>)
    /\ results[2].initVersion = <<"^">> \o V100
    /\ DOMAIN results[2] = {"initUrl", "initVersion", "message", "success"}
    /\ results[2].success = FALSE
    /\ cur.url # cur.initUrl

\* The events of reference k, in the order they happened.
StepsOf(k) == SelectSeq(log, LAMBDA e : e.ref = k)

\* The order of the events of one update.
Order == <<"fetch", "write", "test", "rollback">>

\* C14: the events of a reference are its fetch and then, when it reaches the
\* replace step, the forward write, one call of the validation callback, and a
\* write back exactly when that call failed; the success of the outcome is
\* that the call did not fail; and no event of a reference comes before the
\* last event of the reference before it.
C14_Ordering ==
    /\ \A n \in 1..(Len(log) - 1) : log[n].ref <= log[n + 1].ref
    /\ \A n \in 1..Len(log) : log[n].ref <= i
    /\ \A k \in 1..Len(urls) :
          LET evs == StepsOf(k)
          IN  /\ Len(evs) <= 4
              /\ \A n \in 1..Len(evs) : evs[n].ev = Order[n]
              /\ Len(evs) = 4 => ~evs[3].ok
              /\ k <= Len(results) =>
                    /\ Len(evs) \in {1, 3, 4}
                    /\ Len(evs) >= 3 => (Len(evs) = 4 <=> ~evs[3].ok)
                    /\ Len(evs) >= 3 => results[k].success = evs[3].ok
                    /\ Len(evs) >= 3 <=>
                          (~dryRun /\ Resolve(urls[k], registry, FALSE).step = "replace")
              /\ (k = i /\ pc = "replace") => Len(evs) = 1
              /\ (k = i /\ pc = "test") => Len(evs) = 2
              /\ (k = i /\ pc = "rollback") => Len(evs) = 3

\* The first update was written, failed its validation and was written back
\* before the second was fetched, written and validated.
C14_Witness ==
    /\ pc = "done"
    /\ [n \in 1..Len(log) |-> <<log[n].ref, log[n].ev, log[n].ok>>] =
          << <<1, "fetch", TRUE>>, <<1, "write", TRUE>>, <<1, "test", FALSE>>,
             <<1, "rollback", TRUE>>, <<2, "fetch", TRUE>>, <<2, "write", TRUE>>,
             <<2, "test", TRUE>> >>
    /\ results[1].success = FALSE
    /\ results[2].success = TRUE

\* w is one of the words of text.
HasWord(text, w) == \E n \in 1..Len(Words(text, 1)) : Words(text, 1)[n] = w

\* What update resolves for the k-th url of the scan.
ResolvedAt(k) == Resolve(urls[k], registry, FALSE)

\* The update of reference k was written and passed its validation.
CommittedAt(k) ==
    /\ ~dryRun
    /\ k <= Len(results)
    /\ "success" \in DOMAIN results[k] /\ results[k].success
    /\ ResolvedAt(k).step = "replace"

\* C15 as stated: every write is a substitution applied to the text the file
\* holds at that moment, and the url an earlier reference committed is still
\* in the text a later replace writes.
C15_NoStaleSnapshot ==
    [][content' # content =>
          /\ content' \in { SplitJoin(content, cur.initUrl, cur.newUrl),
                            SplitJoin(content, cur.newUrl, cur.initUrl) }
          /\ \A k \in 1..Len(results) :
                (CommittedAt(k) /\ HasWord(content, ResolvedAt(k).newUrl)) =>
                    HasWord(content', ResolvedAt(k).newUrl)]_vars

\* The run was interrupted, and that was the last that happened.
Interrupted == Len(log) > 0 /\ log[Len(log)].ev = "interrupt"

\* The forward write of the reference under way was done and its validation
\* or its write back was still to come when the interrupt came.
InWindow ==
    /\ Interrupted
    /\ Len(log) >= 2
    /\ log[Len(log) - 1].ref = i
    /\ log[Len(log) - 1].ev \in {"write", "test"}

\* C16: after an interrupt nothing more happens: no step recovers or cancels;
\* a run interrupted between the forward write of a reference and the end of
\* its validation or write back leaves the file with the new url in place of
\* the old, without a write back and without an outcome for the reference.
C16_InterruptWindow ==
    /\ [](Interrupted =>
            /\ pc = "interrupted"
            /\ Len(results) = i - 1
            /\ InWindow =>
                  /\ content = SplitJoin(cur.before, cur.initUrl, cur.newUrl)
                  /\ EventsOf(i, "rollback") = {}
                  /\ Cardinality(EventsOf(i, "write")) = 1)
    /\ [][~Interrupted]_vars

\* The validation of the only reference failed and the interrupt came before
\* the write back: the file holds the new url.
C16_Witness ==
    /\ pc = "interrupted"
    /\ [n \in 1..Len(log) |-> <<log[n].ev, log[n].ok>>] =
          << <<"fetch", TRUE>>, <<"write", TRUE>>, <<"test", FALSE>>,
             <<"interrupt", TRUE>> >>
    /\ results = <<>>
    /\ content0 = FileOf(<<Url(V100, <<>>)>>)
    /\ content = FileOf(<<Url(V120, <<>>)>>)

\* C17 as stated: the version chosen for a reference that reaches the replace
\* step (in a dry run: that is reported with a message) is one of the
\* versions all() returned for it.
C17_FromRegistry ==
    cur.step = "replace" =>
        \E n \in 1..Len(cur.fetched) : cur.fetched[n] = Chosen(cur)

\* A run that is no dry run has returned and every validation succeeded.
RanClean ==
    /\ pc = "done" /\ ~dryRun
    /\ \A n \in 1..Len(log) : log[n].ev = "test" => log[n].ok

\* What a second run, with the same registry answers, resolves for the n-th
\* import url of the file as the first run left it.
SecondRun(n) == Resolve(ImportUrls(content)[n], registry, FALSE)

\* C18 as stated: after a run that is no dry run, has returned, and in which
\* every validation succeeded, a second run over the file with the same
\* registry answers reaches the replace step for no reference.
C18_IdempotenceAsStated ==
    RanClean =>
        \A n \in 1..Len(ImportUrls(content)) : SecondRun(n).step # "replace"

\* C18 as amended: after such a run, a second run reaches the replace step
\* only for a reference under a "<" constraint, and then for a version
\* strictly below the one in the file; every other reference ends without a
\* write: in the no-change or the skipped outcome, or in the failure outcome
\* the first run gave it (malformed fragment, no compatible version); under
\* "<" with no lower version left the outcome is "no compatible version
\* found".
C18_Idempotence ==
    RanClean =>
        \A n \in 1..Len(ImportUrls(content)) :
            LET l == SecondRun(n)
            IN  /\ l.step = "replace" =>
                      /\ FragmentText(l.url) = <<"<">>
                      /\ SemverLt(Semver(Chosen(l)), Semver(Version(l.url)))
                /\ l.step \in {"skip", "nochange", "replace", "syntax",
                               "incompatible"}
                /\ (l.step \in {"syntax", "incompatible"}
                        /\ FragmentText(l.url) # <<"<">>) =>
                      /\ n <= Len(results)
                      /\ "success" \in DOMAIN results[n]
                      /\ ~results[n].success

\* The first run wrote 2.0.0 for 1.0.0, and ^1.2.0 with the fragment #^ for
\* ^1.0.0; the second run finds the one up to date and skips the other.
C18_Witness ==
    /\ RanClean
    /\ registry = <<V200, V120>>
    /\ content0 = FileOf(<<Url(V100, <<>>), Url(<<"^">> \o V100, <<>>)>>)
    /\ content = FileOf(<<Url(V200, <<>>), Url(<<"^">> \o V120, <<"#", "^">>)>>)
    /\ SecondRun(1).step = "nochange"
    /\ SecondRun(2).step = "skip"

\* The text of the file after the updates of the first k references: each
\* forward write, and the write back of those whose outcome is a failure.
RECURSIVE Replayed(_)
Replayed(k) ==
    IF k = 0 THEN content0
    ELSE LET prev == Replayed(k - 1)
             l == ResolvedAt(k)
         IN  IF dryRun \/ l.step # "replace" THEN prev
             ELSE LET written == SplitJoin(prev, l.initUrl, l.newUrl)
                  IN  IF results[k].success THEN written
                      ELSE SplitJoin(written, l.newUrl, l.initUrl)

\* C19: when the fetch for reference k fails, the file holds the text the
\* updates of the references before k left (their commits stay, nothing is
\* undone), nothing was written or validated for k, k has no outcome, and
\* the file is not written afterwards.
C19_PartialCommit ==
    /\ [](\A n \in 1..Len(log) :
            (log[n].ev = "fetch" /\ ~log[n].ok) =>
                /\ content = Replayed(log[n].ref - 1)
                /\ ~Touched(log[n].ref)
                /\ Len(results) = log[n].ref - 1
                /\ \A k \in 1..Len(results) :
                      CommittedAt(k) => EventsOf(k, "rollback") = {})
    /\ [][(Len(log) > 0 /\ log[Len(log)].ev = "fetch" /\ ~log[Len(log)].ok) =>
              content' = content]_vars

\* The first reference was committed to 1.2.0, then the fetch for the second
\* failed: the file keeps 1.2.0.
C19_Witness ==
    /\ pc = "thrown"
    /\ i = 2
    /\ CommittedAt(1)
    /\ content0 = FileOf(<<Url(V100, <<>>), Url(V200, <<"#", "<">>)>>)
    /\ content = FileOf(<<Url(V120, <<>>), Url(V200, <<"#", "<">>)>>)
    /\ log[Len(log)] = [ev |-> "fetch", ref |-> 2, ok |-> FALSE]

====
